---- MODULE Spec2Model ----
(***************************************************************************)
(* Embedding and extraction of signed claims in a WebAssembly module       *)
(* (wascap, src/wasm.rs).                                                  *)
(*                                                                         *)
(* A byte buffer is a sequence of numbers in 0..255.  The module container *)
(* is modelled at byte level: magic, version, then sections (id byte,      *)
(* LEB128 length, body).  A custom section (id 0) has a LEB128-prefixed    *)
(* UTF-8 name followed by its payload.  The bodies of the other sections   *)
(* (ids 1..11) are kept verbatim as opaque payloads.                       *)
(* SHA-256 is modelled as a collision-free digest: the digest value is     *)
(* represented by the byte string that was fed to the hashing context.     *)
(***************************************************************************)
EXTENDS Integers, Sequences, FiniteSets, TLC

(***************************************************************************)
(* Results                                                                 *)
(***************************************************************************)
Ok(v) == [ok |-> TRUE, val |-> v]
Err(k) == [ok |-> FALSE, err |-> k]

Min(a, b) == IF a < b THEN a ELSE b

\* Values of a LEB128 length at or above this are larger than any buffer of
\* the model and are all represented by this number.
LengthCap == 2^21

(***************************************************************************)
(* String::from_utf8: well-formed UTF-8 byte sequences                     *)
(***************************************************************************)
IsCont(s, i) == i >= 1 /\ i <= Len(s) /\ s[i] >= 128 /\ s[i] <= 191

\* Length of the sequence a lead byte announces; 0 for a byte that starts
\* no sequence.
CharLen(b) ==
    IF b <= 127 THEN 1
    ELSE IF b >= 194 /\ b <= 223 THEN 2
    ELSE IF b >= 224 /\ b <= 239 THEN 3
    ELSE IF b >= 240 /\ b <= 244 THEN 4
    ELSE 0

\* The range of the second byte after lead byte b (no overlong forms, no
\* surrogates, nothing above U+10FFFF).
SecondLow(b) == IF b = 224 THEN 160 ELSE IF b = 240 THEN 144 ELSE 128
SecondHigh(b) == IF b = 237 THEN 159 ELSE IF b = 244 THEN 143 ELSE 191

\* A lead byte at i is followed by the continuation bytes it announces.
LeadOk(s, i) ==
    /\ CharLen(s[i]) >= 2
    /\ \A j \in (i + 1)..(i + CharLen(s[i]) - 1) : IsCont(s, j)
    /\ s[i + 1] >= SecondLow(s[i])
    /\ s[i + 1] <= SecondHigh(s[i])

\* A continuation byte at i belongs to a lead byte up to three places back.
ContOk(s, i) ==
    \E j \in (i - 3)..(i - 1) :
        /\ j >= 1
        /\ CharLen(s[j]) > i - j
        /\ \A m \in (j + 1)..(i - 1) : IsCont(s, m)

Utf8(s) ==
    \A i \in 1..Len(s) :
        \/ s[i] <= 127
        \/ IsCont(s, i) /\ ContOk(s, i)
        \/ ~IsCont(s, i) /\ LeadOk(s, i)

\* String::from_utf8(bytes): Ok(the text) or the UTF-8 encoding error.
from_utf8(bytes) ==
    IF Utf8(bytes) THEN Ok(bytes) ELSE Err("EncodingError")

(***************************************************************************)
(* Binary container codec (parity_wasm as called from src/wasm.rs)         *)
(***************************************************************************)
WASM_MAGIC_NUMBER == <<0, 97, 115, 109>>
WASM_VERSION == <<1, 0, 0, 0>>
JWT == <<106, 119, 116>>                    \* the section name "jwt"

\* VarUint32 serialization: minimal LEB128.
RECURSIVE VarUint32Bytes(_)
VarUint32Bytes(n) ==
    IF n < 128 THEN <<n>>
    ELSE <<128 + (n % 128)>> \o VarUint32Bytes(n \div 128)

\* VarUint32 deserialization at position pos of buf: at most five bytes, the
\* fifth carrying no more than four bits.
RECURSIVE VarUint32From(_, _, _, _)
VarUint32From(buf, pos, shift, res) ==
    IF shift > 31 THEN Err("ParseError")
    ELSE IF pos > Len(buf) THEN Err("ParseError")
    ELSE LET b == buf[pos]
             low == b % 128
             res2 == IF low = 0 THEN res
                     ELSE IF shift >= 21 THEN LengthCap
                     ELSE Min(LengthCap, res + low * (2 ^ shift))
         IN  IF b < 128
             THEN IF shift + 7 >= 32 /\ b >= 16
                  THEN Err("ParseError")
                  ELSE [ok |-> TRUE, val |-> res2, next |-> pos + 1]
             ELSE VarUint32From(buf, pos + 1, shift + 7, res2)

ReadVarUint32(buf, pos) == VarUint32From(buf, pos, 0, 0)

Slice(buf, from, to) == [i \in 1..(to - from + 1) |-> buf[from + i - 1]]

CustomSection(name, payload) == [id |-> 0, name |-> name, payload |-> payload]
OtherSection(id, payload) == [id |-> id, name |-> <<>>, payload |-> payload]

\* CustomSection::deserialize on a section body, n being the length prefix
\* of the name read at its start.
CustomFromName(body, n) ==
    IF ~n.ok THEN Err("ParseError")
    ELSE IF n.next + n.val - 1 > Len(body) THEN Err("ParseError")
    ELSE IF ~Utf8(Slice(body, n.next, n.next + n.val - 1))
    THEN Err("ParseError")
    ELSE Ok(CustomSection(Slice(body, n.next, n.next + n.val - 1),
                          Slice(body, n.next + n.val, Len(body))))

CustomFromBody(body) == CustomFromName(body, ReadVarUint32(body, 1))

\* A custom section read at pos, c being what CustomSection::deserialize
\* made of its body and next the position after the body.
CustomAt(c, pos, next) ==
    IF c.ok THEN [ok |-> TRUE, sect |-> c.val, next |-> next]
    ELSE [ok |-> FALSE, eof |-> FALSE, next |-> pos + 1]

\* The section at pos whose id is buf[pos], n being its length prefix.
SectionBody(buf, pos, n) ==
    IF ~n.ok \/ n.next + n.val - 1 > Len(buf)
    THEN [ok |-> FALSE, eof |-> FALSE, next |-> pos + 1]
    ELSE IF buf[pos] = 0
    THEN CustomAt(CustomFromBody(Slice(buf, n.next, n.next + n.val - 1)),
                  pos, n.next + n.val)
    ELSE [ok |-> TRUE,
          sect |-> OtherSection(buf[pos],
                                Slice(buf, n.next, n.next + n.val - 1)),
          next |-> n.next + n.val]

\* Section::deserialize at pos.  eof: no section id could be read there.
SectionAt(buf, pos) ==
    IF pos > Len(buf) THEN [ok |-> FALSE, eof |-> TRUE, next |-> pos]
    ELSE IF buf[pos] >= 128 THEN [ok |-> FALSE, eof |-> TRUE, next |-> pos + 1]
    ELSE IF buf[pos] > 11 THEN [ok |-> FALSE, eof |-> FALSE, next |-> pos + 1]
    ELSE SectionBody(buf, pos, ReadVarUint32(buf, pos + 1))

\* The section loop of Module::deserialize: sections with a non-zero order
\* must come in strictly increasing order; the loop ends where no section id
\* can be read, and deserialize_buffer rejects unread trailing bytes.
\* SectionsNext is one turn of the loop, s being the section just read.
RECURSIVE SectionsFrom(_, _, _, _)
RECURSIVE SectionsNext(_, _, _, _)
SectionsNext(buf, s, lastOrder, acc) ==
    IF ~s.ok
    THEN IF s.eof /\ s.next = Len(buf) + 1 THEN Ok(acc) ELSE Err("ParseError")
    ELSE IF s.sect.id # 0 /\ lastOrder >= s.sect.id THEN Err("ParseError")
    ELSE SectionsFrom(buf, s.next,
                      IF s.sect.id # 0 THEN s.sect.id ELSE lastOrder,
                      Append(acc, s.sect))

SectionsFrom(buf, pos, lastOrder, acc) ==
    SectionsNext(buf, SectionAt(buf, pos), lastOrder, acc)

\* deserialize_buffer::<Module>(contents): Ok(sequence of sections) or error.
deserialize_buffer(contents) ==
    IF Len(contents) < 8 THEN Err("ParseError")
    ELSE IF Slice(contents, 1, 4) # WASM_MAGIC_NUMBER THEN Err("ParseError")
    ELSE IF Slice(contents, 5, 8) # WASM_VERSION THEN Err("ParseError")
    ELSE SectionsFrom(contents, 9, 0, <<>>)

SectionBytes(s) ==
    LET body == IF s.id = 0
                THEN VarUint32Bytes(Len(s.name)) \o s.name \o s.payload
                ELSE s.payload
    IN  <<s.id>> \o VarUint32Bytes(Len(body)) \o body

RECURSIVE SectionsBytes(_)
SectionsBytes(sections) ==
    IF sections = <<>> THEN <<>>
    ELSE SectionBytes(Head(sections)) \o SectionsBytes(Tail(sections))

\* serialize(module): magic, version, sections with minimal length prefixes.
serialize(module) ==
    Ok(WASM_MAGIC_NUMBER \o WASM_VERSION \o SectionsBytes(module))

\* module.custom_sections(): the custom sections, in module order.
custom_sections(module) == SelectSeq(module, LAMBDA s : s.id = 0)

Named(s, name) == s.id = 0 /\ s.name = name

\* Index of the first custom section called name, 0 when there is none.
FirstNamed(module, name) ==
    IF \E i \in 1..Len(module) : Named(module[i], name)
    THEN CHOOSE i \in 1..Len(module) :
             /\ Named(module[i], name)
             /\ \A j \in 1..(i - 1) : ~Named(module[j], name)
    ELSE 0

\* Module::set_custom_section: the first section of that name gets the new
\* payload in place; without one, a new section is pushed at the end.
set_custom_section(module, name, payload) ==
    LET i == FirstNamed(module, name) IN
    IF i = 0 THEN Append(module, CustomSection(name, payload))
    ELSE [module EXCEPT ![i] = CustomSection(name, payload)]

\* Module::clear_custom_section: removes the first section of that name.
clear_custom_section(module, name) ==
    LET i == FirstNamed(module, name) IN
    IF i = 0 THEN module
    ELSE [j \in 1..(Len(module) - 1) |->
             IF j < i THEN module[j] ELSE module[j + 1]]

(***************************************************************************)
(* Content hasher                                                          *)
(***************************************************************************)
BUFFER_LEN == 1024

\* sha256_digest: read the stream in chunks of at most BUFFER_LEN bytes until
\* a read returns 0 bytes, feeding each chunk to the context.  ctx is what
\* the context has been fed so far; the digest stands for exactly that.
RECURSIVE DigestLoop(_, _, _)
DigestLoop(reader, pos, ctx) ==
    LET count == Min(BUFFER_LEN, Len(reader) - pos + 1) IN
    IF count = 0 THEN ctx
    ELSE DigestLoop(reader, pos + count,
                    ctx \o Slice(reader, pos, pos + count - 1))

sha256_digest(reader) == Ok(DigestLoop(reader, 1, <<>>))

HexDigit(n) == IF n < 10 THEN 48 + n ELSE 55 + n     \* '0'..'9', 'A'..'F'

\* HEXUPPER.encode: two uppercase hexadecimal characters per byte.
HEXUPPER_encode(bytes) ==
    [i \in 1..(2 * Len(bytes)) |->
        IF i % 2 = 1 THEN HexDigit(bytes[(i + 1) \div 2] \div 16)
        ELSE HexDigit(bytes[i \div 2] % 16)]

HexValue(c) ==
    IF c >= 48 /\ c <= 57 THEN c - 48
    ELSE IF c >= 65 /\ c <= 70 THEN c - 55
    ELSE -1

\* HEXUPPER.decode: Ok(bytes), or an error for an odd length or a character
\* that is no uppercase hexadecimal digit.
HEXUPPER_decode(text) ==
    IF Len(text) % 2 # 0 \/ \E i \in 1..Len(text) : HexValue(text[i]) < 0
    THEN Err("TokenDecodeError")
    ELSE Ok([i \in 1..(Len(text) \div 2) |->
                16 * HexValue(text[2 * i - 1]) + HexValue(text[2 * i])])

\* compute_hash_without_jwt(module) hashing the module as it stands.
ComputeHashKeepJwt(module) ==
    LET modbytes == serialize(module) IN
    IF ~modbytes.ok THEN modbytes
    ELSE LET digest == sha256_digest(modbytes.val) IN
         IF ~digest.ok THEN digest
         ELSE [ok |-> TRUE, val |-> HEXUPPER_encode(digest.val),
               module |-> module]

\* The tail of compute_hash_without_jwt: the digest in upper-case hex.  The
\* field module is the argument as the call leaves it (the clear acts on a
\* clone).
HashHex(module, digest) ==
    IF ~digest.ok THEN digest
    ELSE [ok |-> TRUE, val |-> HEXUPPER_encode(digest.val),
          module |-> module]

\* compute_hash_without_jwt from the serialized clone on.
HashBytes(module, modbytes) ==
    IF ~modbytes.ok THEN modbytes
    ELSE HashHex(module, sha256_digest(modbytes.val))

\* compute_hash_without_jwt(module): the canonical hash.
compute_hash_without_jwt(module) ==
    HashBytes(module, serialize(clear_custom_section(module, JWT)))

(***************************************************************************)
(* u64 arithmetic.  A number is a little-endian sequence of base-256 limbs; *)
(* a u64 has exactly eight of them.                                        *)
(***************************************************************************)
U64_LIMBS == 8
SECS_PER_DAY == 86400

None == [some |-> FALSE, v |-> <<>>]
Some(x) == [some |-> TRUE, v |-> x]

RECURSIVE MulSmall(_, _, _)
\* limbs * k + carry, exactly (the result may have more limbs than the input).
MulSmall(limbs, k, carry) ==
    IF limbs = <<>>
    THEN IF carry = 0 THEN <<>>
         ELSE <<carry % 256>> \o MulSmall(<<>>, k, carry \div 256)
    ELSE LET t == Head(limbs) * k + carry
         IN  <<t % 256>> \o MulSmall(Tail(limbs), k, t \div 256)

RECURSIVE AddLimbs(_, _, _)
\* a + b + carry, exactly.
AddLimbs(a, b, carry) ==
    IF a = <<>> /\ b = <<>>
    THEN IF carry = 0 THEN <<>> ELSE <<carry>>
    ELSE LET x == IF a = <<>> THEN 0 ELSE Head(a)
             y == IF b = <<>> THEN 0 ELSE Head(b)
             t == x + y + carry
         IN  <<t % 256>> \o AddLimbs(IF a = <<>> THEN a ELSE Tail(a),
                                     IF b = <<>> THEN b ELSE Tail(b),
                                     t \div 256)

\* The value of a limb sequence does not depend on high zero limbs.
RECURSIVE Trim(_)
Trim(limbs) ==
    IF limbs # <<>> /\ limbs[Len(limbs)] = 0
    THEN Trim(SubSeq(limbs, 1, Len(limbs) - 1))
    ELSE limbs

SameNumber(a, b) == Trim(a) = Trim(b)

\* Does the exact number fit a u64?
FitsU64(limbs) == Len(Trim(limbs)) <= U64_LIMBS

\* The number modulo 2^64, as a u64.
WrapU64(limbs) ==
    [i \in 1..U64_LIMBS |-> IF i <= Len(limbs) THEN limbs[i] ELSE 0]

\* a * b on u64: the wrapped product, or a panic when the build checks
\* arithmetic overflow (debug builds do, release builds wrap).
U64Mul(a, k, overflow_checks) ==
    LET exact == MulSmall(a, k, 0) IN
    IF ~FitsU64(exact) /\ overflow_checks THEN [panic |-> TRUE, v |-> <<>>]
    ELSE [panic |-> FALSE, v |-> WrapU64(exact)]

U64Add(a, b, overflow_checks) ==
    LET exact == AddLimbs(a, b, 0) IN
    IF ~FitsU64(exact) /\ overflow_checks THEN [panic |-> TRUE, v |-> <<>>]
    ELSE [panic |-> FALSE, v |-> WrapU64(exact)]

\* now + e * SECS_PER_DAY, prod being e * SECS_PER_DAY.
DaysSum(sum) ==
    IF sum.panic THEN [panic |-> TRUE, v |-> None]
    ELSE [panic |-> FALSE, v |-> Some(sum.v)]

DaysProd(prod, now, overflow_checks) ==
    IF prod.panic THEN [panic |-> TRUE, v |-> None]
    ELSE DaysSum(U64Add(now, prod.v, overflow_checks))

\* days_from_now_to_jwt_time(stamp), now being since_the_epoch().as_secs():
\* stamp.map(|e| now + e * SECS_PER_DAY) in u64 arithmetic.
days_from_now_to_jwt_time(stamp, now, overflow_checks) ==
    IF ~stamp.some THEN [panic |-> FALSE, v |-> None]
    ELSE DaysProd(U64Mul(stamp.v, SECS_PER_DAY, overflow_checks), now,
                  overflow_checks)

(***************************************************************************)
(* Key pairs and the token codec (crate::jwt, nkeys)                       *)
(*                                                                         *)
(* A token is the text  header "." body "." signature.  The body lists the *)
(* nine fields of Claims separated by ","; the signature is computed from  *)
(* "header.body" and the signing seed, and checked on decoding with the    *)
(* key the issuer field names.                                             *)
(***************************************************************************)
DOT == <<46>>
COMMA == <<44>>
SEMI == <<59>>
HEADER == <<74>>                           \* "J"

\* A key pair without a seed (a public-only key) cannot sign.
KeyPair(pk, seed) == [public_key |-> pk, seed |-> seed]
AccountKey == KeyPair(<<65, 49>>, 17)       \* public key "A1"
ModuleKey == KeyPair(<<77, 50>>, 101)       \* public key "M2"
VerifyOnlyKey == KeyPair(<<65, 49>>, -1)
KnownKeys == {AccountKey, ModuleKey}

RECURSIVE SumRange(_, _, _)
SumRange(s, from, to) ==
    IF from > to THEN 0
    ELSE IF from = to THEN s[from]
    ELSE LET mid == (from + to) \div 2
         IN  SumRange(s, from, mid) + SumRange(s, mid + 1, to)

SumBytes(s) == SumRange(s, 1, Len(s))

Signature(seed, msg) == HEXUPPER_encode(<<(SumBytes(msg) + seed) % 256>>)

\* KeyPair::sign
sign(kp, msg) ==
    IF kp.seed < 0 THEN Err("SigningError") ELSE Ok(Signature(kp.seed, msg))

\* KeyPair::from_public_key(pk).verify(msg, sig)
verify(pk, msg, sig) ==
    \E k \in KnownKeys : k.public_key = pk /\ sig = Signature(k.seed, msg)

RECURSIVE Join(_, _)
Join(parts, sep) ==
    IF parts = <<>> THEN <<>>
    ELSE IF Len(parts) = 1 THEN parts[1]
    ELSE parts[1] \o sep \o Join(Tail(parts), sep)

\* text.split(sep): the pieces between the occurrences of sep.
Split(s, sep) ==
    LET at == {i \in 1..Len(s) : s[i] = sep}
        \* position of the k-th separator; 0 and Len(s) + 1 bound the text
        nth(k) == IF k = 0 THEN 0
                  ELSE IF k > Cardinality(at) THEN Len(s) + 1
                  ELSE CHOOSE i \in at :
                           Cardinality({j \in at : j < i}) = k - 1
    IN  [k \in 1..(Cardinality(at) + 1) |->
            Slice(s, nth(k - 1) + 1, nth(k) - 1)]

Reverse(s) == [i \in 1..Len(s) |-> s[Len(s) + 1 - i]]

U64Text(n) == HEXUPPER_encode(Reverse(n))

U64FromText(t) ==
    LET b == HEXUPPER_decode(t) IN
    IF ~b.ok \/ Len(t) # 2 * U64_LIMBS THEN Err("TokenDecodeError")
    ELSE Ok(Reverse(b.val))

OptU64Text(o) == IF o.some THEN <<83>> \o U64Text(o.v) ELSE <<78>>

OptU64FromText(t) ==
    IF t = <<78>> THEN Ok(None)
    ELSE IF t # <<>> /\ t[1] = 83
    THEN LET n == U64FromText(Tail(t)) IN
         IF n.ok THEN Ok(Some(n.val)) ELSE n
    ELSE Err("TokenDecodeError")

\* A text field is written with its separator characters escaped ("%" and
\* a letter), so that the token text splits where the fields end whatever
\* the fields hold, and is read back as it was.
ESCAPE == 37                               \* "%"

EscapeChar(c) ==
    IF c = DOT[1] THEN <<ESCAPE, 65>>
    ELSE IF c = COMMA[1] THEN <<ESCAPE, 66>>
    ELSE IF c = SEMI[1] THEN <<ESCAPE, 67>>
    ELSE IF c = ESCAPE THEN <<ESCAPE, 68>>
    ELSE <<c>>

UnescapeChar(letter) ==
    IF letter = 65 THEN DOT[1]
    ELSE IF letter = 66 THEN COMMA[1]
    ELSE IF letter = 67 THEN SEMI[1]
    ELSE IF letter = 68 THEN ESCAPE
    ELSE -1

RECURSIVE EscapeRange(_, _, _)
EscapeRange(t, from, to) ==
    IF from > to THEN <<>>
    ELSE IF from = to THEN EscapeChar(t[from])
    ELSE EscapeRange(t, from, (from + to) \div 2)
         \o EscapeRange(t, (from + to) \div 2 + 1, to)

TextField(t) == EscapeRange(t, 1, Len(t))

\* The characters of f that do not follow an escape character, each with
\* the character after it.
Unescaped(f) ==
    SelectSeq([i \in 1..Len(f) |->
                  <<IF i > 1 THEN f[i - 1] ELSE 0, f[i],
                    IF i < Len(f) THEN f[i + 1] ELSE 0>>],
              LAMBDA p : p[1] # ESCAPE)

UnescapeAll(kept) ==
    [i \in 1..Len(kept) |->
        IF kept[i][2] = ESCAPE THEN UnescapeChar(kept[i][3]) ELSE kept[i][2]]

TextFromField(f) ==
    IF \E i \in 1..Len(f) :
          f[i] = ESCAPE /\ (i = Len(f) \/ UnescapeChar(f[i + 1]) < 0)
    THEN Err("TokenDecodeError")
    ELSE Ok(UnescapeAll(Unescaped(f)))

RECURSIVE ListText(_)
ListText(items) ==
    IF items = <<>> THEN <<>>
    ELSE TextField(Head(items)) \o SEMI \o ListText(Tail(items))

OptListText(o) == IF o.some THEN <<83>> \o ListText(o.v) ELSE <<78>>

ListFromFields(fields) ==
    IF \E i \in 1..Len(fields) : ~TextFromField(fields[i]).ok
    THEN Err("TokenDecodeError")
    ELSE Ok(Some([i \in 1..Len(fields) |-> TextFromField(fields[i]).val]))

OptListFromText(t) ==
    IF t = <<78>> THEN Ok(None)
    ELSE IF t = <<83>> THEN Ok(Some(<<>>))
    ELSE IF Len(t) >= 2 /\ t[1] = 83 /\ t[Len(t)] = SEMI[1]
    THEN ListFromFields(Split(SubSeq(t, 2, Len(t) - 1), SEMI[1]))
    ELSE Err("TokenDecodeError")

Claims(issuer, subject, id, issued_at, not_before, expires, caps, tags, module_hash) ==
    [issuer |-> issuer, subject |-> subject, id |-> id,
     issued_at |-> issued_at, not_before |-> not_before,
     expires |-> expires, caps |-> caps, tags |-> tags,
     module_hash |-> module_hash]

ClaimsBody(c) ==
    Join(<<TextField(c.issuer), TextField(c.subject), TextField(c.id),
           U64Text(c.issued_at), OptU64Text(c.not_before),
           OptU64Text(c.expires), OptListText(c.caps), OptListText(c.tags),
           TextField(c.module_hash)>>, COMMA)

\* Claims::encode(&self, kp): the signed token text.
EncodeSigned(head_and_body, sig) ==
    IF ~sig.ok THEN sig ELSE Ok(head_and_body \o DOT \o sig.val)

EncodeBody(head_and_body, kp) ==
    EncodeSigned(head_and_body, sign(kp, head_and_body))

Claims_encode(c, kp) == EncodeBody(HEADER \o DOT \o ClaimsBody(c), kp)

\* Claims::decode(jwt): the claims of a well-formed token whose signature
\* verifies; TokenDecodeError otherwise.
DecodeVerified(segments, c) ==
    IF ~verify(c.issuer, segments[1] \o DOT \o segments[2], segments[3])
    THEN Err("TokenDecodeError")
    ELSE Ok(c)

DecodeTexts(segments, iss, sub, id, hash, iat, nbf, exp, caps, tags) ==
    IF ~iss.ok \/ ~sub.ok \/ ~id.ok \/ ~hash.ok
    THEN Err("TokenDecodeError")
    ELSE DecodeVerified(segments,
                        Claims(iss.val, sub.val, id.val, iat, nbf, exp, caps,
                               tags, hash.val))

DecodeFields(segments, f, iat, nbf, exp, caps, tags) ==
    IF ~iat.ok \/ ~nbf.ok \/ ~exp.ok \/ ~caps.ok \/ ~tags.ok
    THEN Err("TokenDecodeError")
    ELSE DecodeTexts(segments, TextFromField(f[1]), TextFromField(f[2]),
                     TextFromField(f[3]), TextFromField(f[9]), iat.val,
                     nbf.val, exp.val, caps.val, tags.val)

DecodeBody(segments, f) ==
    IF Len(f) # 9 THEN Err("TokenDecodeError")
    ELSE DecodeFields(segments, f, U64FromText(f[4]), OptU64FromText(f[5]),
                      OptU64FromText(f[6]), OptListFromText(f[7]),
                      OptListFromText(f[8]))

DecodeSegments(segments) ==
    IF Len(segments) # 3 \/ segments[1] # HEADER THEN Err("TokenDecodeError")
    ELSE DecodeBody(segments, Split(segments[2], COMMA[1]))

Claims_decode(jwt) == DecodeSegments(Split(jwt, DOT[1]))

\* Claims::with_dates: claims with a fresh id, issued now, no hash yet.
NUID == <<110>>
Claims_with_dates(issuer, subject, caps, tags, not_before, expires, now) ==
    Claims(issuer, subject, NUID, now, not_before, expires, caps, tags, <<>>)

(***************************************************************************)
(* src/wasm.rs                                                             *)
(***************************************************************************)
Token(jwt, claims) == [jwt |-> jwt, claims |-> claims]

\* extract_claims with the hash comparison made before the token is decoded
\* (the comparison then reads the raw payload).
ExtractHashFirst(bytes) ==
    LET module == deserialize_buffer(bytes) IN
    IF ~module.ok THEN module
    ELSE LET sections == SelectSeq(custom_sections(module.val),
                                   LAMBDA sect : sect.name = JWT) IN
         IF Len(sections) = 0 THEN Ok(None)
         ELSE LET hash == compute_hash_without_jwt(module.val)
                  jwt == from_utf8(sections[1].payload)
              IN  IF ~hash.ok THEN hash
                  ELSE IF ~jwt.ok \/ ~Claims_decode(jwt.val).ok
                  THEN Err("InvalidModuleHash")
                  ELSE LET claims == Claims_decode(jwt.val) IN
                       IF hash.val # claims.val.module_hash
                       THEN Err("InvalidModuleHash")
                       ELSE Ok(Some(Token(jwt.val, claims.val)))

\* extract_claims without the hash comparison.
ExtractNoHashGate(bytes) ==
    LET module == deserialize_buffer(bytes) IN
    IF ~module.ok THEN module
    ELSE LET sections == SelectSeq(custom_sections(module.val),
                                   LAMBDA sect : sect.name = JWT) IN
         IF Len(sections) = 0 THEN Ok(None)
         ELSE LET jwt == from_utf8(sections[1].payload) IN
              IF ~jwt.ok THEN jwt
              ELSE LET claims == Claims_decode(jwt.val) IN
                   IF ~claims.ok THEN claims
                   ELSE Ok(Some(Token(jwt.val, claims.val)))

\* extract_claims treating a module without a "jwt" section as one with an
\* empty token.
ExtractNoAbsence(bytes) ==
    LET module == deserialize_buffer(bytes) IN
    IF ~module.ok THEN module
    ELSE LET sections == SelectSeq(custom_sections(module.val),
                                   LAMBDA sect : sect.name = JWT)
             jwt == from_utf8(IF Len(sections) = 0 THEN <<>>
                              ELSE sections[1].payload)
         IN  IF ~jwt.ok THEN jwt
             ELSE LET claims == Claims_decode(jwt.val) IN
                  IF ~claims.ok THEN claims
                  ELSE LET hash == compute_hash_without_jwt(module.val) IN
                       IF ~hash.ok THEN hash
                       ELSE IF hash.val # claims.val.module_hash
                       THEN Err("InvalidModuleHash")
                       ELSE Ok(Some(Token(jwt.val, claims.val)))

\* extract_claims decoding the payload leniently (invalid bytes dropped).
ExtractLossyUtf8(bytes) ==
    LET module == deserialize_buffer(bytes) IN
    IF ~module.ok THEN module
    ELSE LET sections == SelectSeq(custom_sections(module.val),
                                   LAMBDA sect : sect.name = JWT) IN
         IF Len(sections) = 0 THEN Ok(None)
         ELSE LET jwt == Ok(SelectSeq(sections[1].payload,
                                      LAMBDA b : b < 128)) IN
              LET claims == Claims_decode(jwt.val) IN
              IF ~claims.ok THEN claims
              ELSE LET hash == compute_hash_without_jwt(module.val) IN
                   IF ~hash.ok THEN hash
                   ELSE IF hash.val # claims.val.module_hash
                   THEN Err("InvalidModuleHash")
                   ELSE Ok(Some(Token(jwt.val, claims.val)))

\* extract_claims, the last step: the canonical hash against the declared.
ExtractHashed(jwt, claims, hash) ==
    IF ~hash.ok THEN hash
    ELSE IF hash.val # claims.module_hash THEN Err("InvalidModuleHash")
    ELSE Ok(Some(Token(jwt, claims)))

\* extract_claims once the token text has gone through Claims::decode.
ExtractDecoded(module, jwt, claims) ==
    IF ~claims.ok THEN claims
    ELSE ExtractHashed(jwt, claims.val, compute_hash_without_jwt(module))

\* extract_claims once the payload has gone through String::from_utf8.
ExtractText(module, jwt) ==
    IF ~jwt.ok THEN jwt
    ELSE ExtractDecoded(module, jwt.val, Claims_decode(jwt.val))

\* extract_claims on the custom sections called "jwt".
ExtractSections(module, sections) ==
    IF Len(sections) = 0 THEN Ok(None)
    ELSE ExtractText(module, from_utf8(sections[1].payload))

\* extract_claims on what deserialize_buffer returned.
ExtractParsed(module) ==
    IF ~module.ok THEN module
    ELSE ExtractSections(module.val,
                         SelectSeq(custom_sections(module.val),
                                   LAMBDA sect : sect.name = JWT))

\* extract_claims(contents): Ok(None), Ok(Some(token)) or an error.
extract_claims(bytes) == ExtractParsed(deserialize_buffer(bytes))

\* What embed_claims returns: the result, the caller's Claims object as the
\* call leaves it, and the working copy that was signed.
EmbedOk(buf, caller, signed) ==
    [ok |-> TRUE, val |-> buf, err |-> "", claims |-> caller,
     signed |-> signed]
EmbedErr(kind, caller) ==
    [ok |-> FALSE, val |-> <<>>, err |-> kind, claims |-> caller,
     signed |-> caller]

\* embed_claims keeping a module_hash the caller supplied and writing into
\* the caller's object.
EmbedKeepHash(orig_bytecode, claims, kp) ==
    LET module == deserialize_buffer(orig_bytecode) IN
    IF ~module.ok THEN EmbedErr(module.err, claims)
    ELSE LET cleanbytes == serialize(module.val)
             digest == sha256_digest(cleanbytes.val)
             claims2 == IF claims.module_hash # <<>> THEN claims
                        ELSE [claims EXCEPT
                                !.module_hash = HEXUPPER_encode(digest.val)]
             encoded == Claims_encode(claims2, kp)
         IN  IF ~encoded.ok THEN EmbedErr(encoded.err, claims2)
             ELSE LET m == set_custom_section(module.val, JWT, encoded.val)
                  IN  EmbedOk(serialize(m).val, claims2, claims2)

\* embed_claims, step by step from its end.  caller is the Claims object the
\* caller passed, claims the clone that gets the hash and is signed.
EmbedSerialized(caller, claims, buf) ==
    IF ~buf.ok THEN EmbedErr(buf.err, caller)
    ELSE EmbedOk(buf.val, caller, claims)

\* m is the second parse of the original bytes, encoded the token text.
EmbedInto(caller, claims, encoded, m) ==
    IF ~m.ok THEN EmbedErr(m.err, caller)
    ELSE EmbedSerialized(caller, claims,
                         serialize(set_custom_section(m.val, JWT, encoded)))

EmbedEncoded(orig_bytecode, caller, claims, encoded) ==
    IF ~encoded.ok THEN EmbedErr(encoded.err, caller)
    ELSE EmbedInto(caller, claims, encoded.val,
                   deserialize_buffer(orig_bytecode))

EmbedSigned(orig_bytecode, caller, claims, kp) ==
    EmbedEncoded(orig_bytecode, caller, claims, Claims_encode(claims, kp))

EmbedDigest(orig_bytecode, claims, kp, digest) ==
    IF ~digest.ok THEN EmbedErr(digest.err, claims)
    ELSE EmbedSigned(orig_bytecode, claims,
                     [claims EXCEPT
                         !.module_hash = HEXUPPER_encode(digest.val)],
                     kp)

EmbedClean(orig_bytecode, claims, kp, cleanbytes) ==
    IF ~cleanbytes.ok THEN EmbedErr(cleanbytes.err, claims)
    ELSE EmbedDigest(orig_bytecode, claims, kp,
                     sha256_digest(cleanbytes.val))

EmbedParsed(orig_bytecode, claims, kp, module) ==
    IF ~module.ok THEN EmbedErr(module.err, claims)
    ELSE EmbedClean(orig_bytecode, claims, kp, serialize(module.val))

\* embed_claims(orig_bytecode, claims, kp)
embed_claims(orig_bytecode, claims, kp) ==
    EmbedParsed(orig_bytecode, claims, kp, deserialize_buffer(orig_bytecode))

\* sign_buffer_with_claims once both dates are computed.
SignDated(buf, mod_kp, acct_kp, caps, tags, clock2, nbf, exp) ==
    IF nbf.panic \/ exp.panic
    THEN [panic |-> TRUE,
          res |-> EmbedErr("panic", Claims_with_dates(
                      acct_kp.public_key, mod_kp.public_key, Some(caps),
                      Some(tags), None, None, clock2))]
    ELSE [panic |-> FALSE,
          res |-> embed_claims(buf,
                               Claims_with_dates(
                                   acct_kp.public_key, mod_kp.public_key,
                                   Some(caps), Some(tags), nbf.v, exp.v,
                                   clock2),
                               acct_kp)]

\* sign_buffer_with_claims(buf, mod_kp, acct_kp, expires_in_days,
\* not_before_days, caps, tags).  clock1 and clock2 are what the two reads
\* of the system clock return.  A panic is an arithmetic overflow in a
\* build that checks for it.
sign_buffer_with_claims(buf, mod_kp, acct_kp, expires_in_days, not_before_days, caps, tags, clock1, clock2, overflow_checks) ==
    SignDated(buf, mod_kp, acct_kp, caps, tags, clock2,
              days_from_now_to_jwt_time(not_before_days, clock1,
                                        overflow_checks),
              days_from_now_to_jwt_time(expires_in_days, clock2,
                                        overflow_checks))

(***************************************************************************)
(* Inputs                                                                  *)
(***************************************************************************)
MaxSections == 2      \* sections of an input module
MaxEmbeds == 2        \* embed calls chained on one buffer

\* A LEB128 length with pad redundant continuation bytes (as foreign
\* encoders write it); parsers read the same number.
RECURSIVE VarUint32Padded(_, _)
VarUint32Padded(n, pad) ==
    IF n < 128
    THEN IF pad = 0 THEN <<n>>
         ELSE <<128 + n>> \o VarUint32Padded(0, pad - 1)
    ELSE <<128 + (n % 128)>> \o VarUint32Padded(n \div 128, pad)

PaddedSectionBytes(s, pad) ==
    LET body == IF s.id = 0
                THEN VarUint32Padded(Len(s.name), pad) \o s.name \o s.payload
                ELSE s.payload
    IN  <<s.id>> \o VarUint32Padded(Len(body), pad) \o body

RECURSIVE PaddedSectionsBytes(_, _)
PaddedSectionsBytes(sections, pad) ==
    IF sections = <<>> THEN <<>>
    ELSE PaddedSectionBytes(Head(sections), pad)
         \o PaddedSectionsBytes(Tail(sections), pad)

ModuleBytes(sections, pad) ==
    WASM_MAGIC_NUMBER \o WASM_VERSION \o PaddedSectionsBytes(sections, pad)

TypeSection == OtherSection(1, <<0>>)        \* no types
NoteSection == CustomSection(<<97>>, <<1>>)  \* custom section "a"
StaleJwt == CustomSection(JWT, <<120>>)      \* "jwt" holding the text "x"
BinaryJwt == CustomSection(JWT, <<255>>)     \* "jwt" holding invalid UTF-8

SectionAlphabet ==
    {TypeSection, NoteSection, StaleJwt, BinaryJwt}

\* Redundant continuation bytes in the length prefixes of an input.
Pads == {0, 1}

InputModules ==
    UNION {[1..n -> SectionAlphabet] : n \in 0..MaxSections}

Malformed ==
    {<<>>,
     <<0, 97, 115, 109, 2, 0, 0, 0>>,
     WASM_MAGIC_NUMBER \o WASM_VERSION \o <<12, 0>>,
     WASM_MAGIC_NUMBER \o WASM_VERSION \o <<0, 5, 3, 106, 119>>}

InputBuffers ==
    {ModuleBytes(m, p) : m \in InputModules, p \in Pads} \cup Malformed

Zero64 == <<0, 0, 0, 0, 0, 0, 0, 0>>
Clock == <<0, 241, 83, 101, 0, 0, 0, 0>>     \* 1700000000 s after the epoch
Caps == <<<<109>>, <<107>>>>                 \* two capability names
Tags == <<<<116>>>>

\* crate::caps
MESSAGING ==
    <<119, 97, 115, 99, 97, 112, 58, 109, 101, 115, 115, 97, 103, 105, 110,
      103>>                                  \* "wascap:messaging"
KEY_VALUE ==
    <<119, 97, 115, 99, 97, 112, 58, 107, 101, 121, 118, 97, 108, 117,
      101>>                                  \* "wascap:keyvalue"

\* The Claims of the test claims_roundtrip: subject "test.wasm".
TestClaims(kp) ==
    Claims(kp.public_key, <<116, 101, 115, 116, 46, 119, 97, 115, 109>>, NUID,
           Zero64, None, None, Some(<<MESSAGING, KEY_VALUE>>), None, <<>>)

\* The test's Claims, and shorter ones of the same shape: subject ".,", no
\* capabilities, module_hash empty or left over from earlier.
InputClaims(kp) ==
    {TestClaims(kp)} \cup
    {Claims(kp.public_key, <<46, 44>>, NUID, Zero64, None, None, None, None, mh) :
        mh \in {<<>>, <<65, 66>>}}

DayCounts ==
    {None,
     Some(Zero64),
     Some(<<1, 0, 0, 0, 0, 0, 0, 0>>),
     Some(<<30, 0, 0, 0, 0, 0, 0, 0>>),
     Some(<<137, 114, 6, 69, 46, 194, 0, 0>>),     \* 213503982334601
     Some(<<138, 114, 6, 69, 46, 194, 0, 0>>),     \* 213503982334602
     Some(<<255, 255, 255, 255, 255, 255, 255, 255>>)}

TamperBits == {0, 7}

FlipBit(b, k) ==
    IF (b \div (2 ^ k)) % 2 = 1 THEN b - 2 ^ k ELSE b + 2 ^ k

(***************************************************************************)
(* State                                                                   *)
(***************************************************************************)
VARIABLES
    contents,         \* the module file
    orig,             \* the buffer the last embed call was given
    claims,           \* the caller's Claims object
    given,            \* the caller's Claims object as the last embed got it
    kp,               \* the caller's key pair
    embeds,           \* embed calls made on the buffer so far
    embedRes,         \* result of the last embed call
    secondRes,        \* result of a repeated embed call on orig
    extractRes,       \* result of extract_claims on contents
    tamperAt,         \* position of the byte changed after embedding, or 0
    signRes,          \* sign_buffer_with_claims: arguments and outcome
    overflow_checks   \* does the build check arithmetic overflow?

vars == <<contents, orig, claims, given, kp, embeds, embedRes, secondRes,
          extractRes, tamperAt, signRes, overflow_checks>>

NotRun == [ran |-> FALSE]
Ran(r) == [ran |-> TRUE, res |-> r]

Init ==
    /\ contents \in InputBuffers
    /\ orig = <<>>
    /\ kp \in {AccountKey, VerifyOnlyKey}
    /\ claims \in InputClaims(kp)
    /\ given = claims
    /\ embeds = 0
    /\ embedRes = NotRun
    /\ secondRes = NotRun
    /\ extractRes = NotRun
    /\ tamperAt = 0
    /\ signRes = NotRun
    /\ overflow_checks = FALSE

\* The caller's state after an embed_claims call that returned r.
EmbedReturned(r) ==
    /\ embedRes' = Ran(r)
    /\ claims' = r.claims
    /\ contents' = IF r.ok THEN r.val ELSE contents

\* embed_claims(&contents, &claims, &kp), the output written to the file.
EmbedClaims ==
    /\ embeds < MaxEmbeds
    /\ tamperAt = 0
    /\ ~signRes.ran
    /\ embeds > 0 => embedRes.res.ok
    /\ EmbedReturned(embed_claims(contents, claims, kp))
    /\ orig' = contents
    /\ given' = claims
    /\ embeds' = embeds + 1
    /\ secondRes' = NotRun
    /\ extractRes' = NotRun
    /\ UNCHANGED <<kp, tamperAt, signRes, overflow_checks>>

AgainReturned(r) ==
    /\ secondRes' = Ran(r)
    /\ claims' = r.claims

\* A second embed_claims call with the same original bytes, claims and key.
EmbedAgain ==
    /\ embedRes.ran
    /\ embedRes.res.ok
    /\ tamperAt = 0
    /\ ~signRes.ran
    /\ ~secondRes.ran
    /\ AgainReturned(embed_claims(orig, claims, kp))
    /\ given' = claims
    /\ UNCHANGED <<contents, orig, kp, embeds, embedRes, extractRes,
                   tamperAt, signRes, overflow_checks>>

\* Somebody changes one byte of the signed file.
Tamper ==
    /\ embeds = 1
    /\ embedRes.res.ok
    /\ tamperAt = 0
    /\ ~secondRes.ran
    /\ \E i \in 1..Len(contents), k \in TamperBits :
          /\ contents' = [contents EXCEPT ![i] = FlipBit(contents[i], k)]
          /\ tamperAt' = i
    /\ extractRes' = NotRun
    /\ UNCHANGED <<orig, claims, given, kp, embeds, embedRes, secondRes, signRes,
                   overflow_checks>>

\* extract_claims(&contents)
ExtractClaims ==
    /\ ~extractRes.ran
    /\ extractRes' = Ran(extract_claims(contents))
    /\ UNCHANGED <<contents, orig, claims, given, kp, embeds, embedRes, secondRes,
                   tamperAt, signRes, overflow_checks>>

Next == EmbedClaims \/ EmbedAgain \/ Tamper \/ ExtractClaims

Spec == Init /\ [][Next]_vars

(***************************************************************************)
(* The convenience signer                                                  *)
(***************************************************************************)
InitDates ==
    /\ contents \in {ModuleBytes(m, 0) : m \in
                        {<<>>, <<TypeSection>>, <<NoteSection, StaleJwt>>}}
    /\ orig = <<>>
    /\ kp = AccountKey
    /\ claims \in {c \in InputClaims(kp) : c.module_hash = <<>> /\ ~c.caps.some}
    /\ given = claims
    /\ embeds = 0
    /\ embedRes = NotRun
    /\ secondRes = NotRun
    /\ extractRes = NotRun
    /\ tamperAt = 0
    /\ signRes = NotRun
    /\ overflow_checks \in BOOLEAN

\* The caller's state after a sign_buffer_with_claims call that returned r.
SignReturned(r, expires_in_days, not_before_days, clock2) ==
    /\ signRes' = [ran |-> TRUE, panic |-> r.panic, res |-> r.res,
                   expires_in_days |-> expires_in_days,
                   not_before_days |-> not_before_days,
                   clock1 |-> Clock, clock2 |-> clock2]
    /\ contents' = IF r.res.ok THEN r.res.val ELSE contents

SignAt(expires_in_days, not_before_days, clock2) ==
    SignReturned(sign_buffer_with_claims(contents, ModuleKey, kp,
                     expires_in_days, not_before_days, Caps, Tags,
                     Clock, clock2, overflow_checks),
                 expires_in_days, not_before_days, clock2)

\* sign_buffer_with_claims(&contents, ModuleKey, kp, expires_in_days,
\* not_before_days, Caps, Tags), the output written to the file.  The clock
\* may advance by a second between its two reads.
SignBufferWithClaims ==
    /\ ~signRes.ran
    /\ \E expires_in_days \in DayCounts, not_before_days \in DayCounts,
          tick \in {Zero64, <<1, 0, 0, 0, 0, 0, 0, 0>>} :
          SignAt(expires_in_days, not_before_days,
                 WrapU64(AddLimbs(Clock, tick, 0)))
    /\ orig' = contents
    /\ extractRes' = NotRun
    /\ UNCHANGED <<claims, given, kp, embeds, embedRes, secondRes, tamperAt,
                   overflow_checks>>

NextDates == SignBufferWithClaims \/ ExtractClaims

SpecDates == InitDates /\ [][NextDates]_vars

(***************************************************************************)
(* Vocabulary of the properties                                            *)
(***************************************************************************)
Embedded == embedRes.ran /\ embedRes.res.ok
Extracted == extractRes.ran
ExtractedToken == extractRes.ran /\ extractRes.res.ok /\ extractRes.res.val.some
ExtractedNone == extractRes.ran /\ extractRes.res.ok /\ ~extractRes.res.val.some
ExtractFailed(kind) ==
    extractRes.ran /\ ~extractRes.res.ok /\ extractRes.res.err = kind

Parses(bytes) == deserialize_buffer(bytes).ok
ModuleOf(bytes) == deserialize_buffer(bytes).val
HasJwt(bytes) == Parses(bytes) /\ FirstNamed(ModuleOf(bytes), JWT) # 0
JwtPayload(bytes) == ModuleOf(bytes)[FirstNamed(ModuleOf(bytes), JWT)].payload
CanonicalHash(bytes) == compute_hash_without_jwt(ModuleOf(bytes)).val
Verifies(bytes) ==
    LET r == extract_claims(bytes) IN r.ok /\ r.val.some

\* The token embed_claims signed, as text.
EmbeddedToken == Claims_encode(embedRes.res.signed, kp).val

\* The bytes of m = embedRes.res.val that make up its "jwt" section.
JwtSpan ==
    LET m == ModuleOf(embedRes.res.val)
        i == FirstNamed(m, JWT)
        before == Len(WASM_MAGIC_NUMBER) + Len(WASM_VERSION)
                  + Len(SectionsBytes(SubSeq(m, 1, i - 1)))
    IN  (before + 1)..(before + Len(SectionBytes(m[i])))

\* Right after an embed call: nothing has touched or read the output yet.
JustEmbedded ==
    Embedded /\ tamperAt = 0 /\ ~extractRes.ran /\ ~secondRes.ran

TamperedOutsideJwt == Embedded /\ tamperAt # 0 /\ tamperAt \notin JwtSpan

(***************************************************************************)
(* C1  Round trip: extracting from the output of embed_claims(b, c, k)     *)
(* returns Ok(Some(token)) with the issuer and the capabilities of c, for  *)
(* every valid module b, also one that already carries a "jwt" section.    *)
(***************************************************************************)
C1_RoundTrip ==
    (Embedded /\ tamperAt = 0 /\ Extracted) =>
        /\ ExtractedToken
        /\ extractRes.res.val.v.claims.issuer = given.issuer
        /\ extractRes.res.val.v.claims.caps = given.caps

(***************************************************************************)
(* C8  The module_hash embed_claims writes into the signed claims is the   *)
(* canonical hash of the parsed input (the hash of its serialization       *)
(* without the "jwt" section), whether or not the input carried a "jwt"    *)
(* section.                                                                *)
(***************************************************************************)
C8_DeclaredHashIsCanonical ==
    JustEmbedded => embedRes.res.signed.module_hash = CanonicalHash(orig)

(***************************************************************************)
(* C6  Idempotent re-embed: two successive embed_claims calls on the same  *)
(* original bytes, claims and key give two modules that each pass          *)
(* extract_claims with Ok(Some(token)).                                    *)
(***************************************************************************)
C6_BothEmbedsVerify ==
    (Embedded /\ secondRes.ran) =>
        /\ secondRes.res.ok
        /\ Verifies(embedRes.res.val)
        /\ Verifies(secondRes.res.val)

(***************************************************************************)
(* C2  Tamper detection, as claimed: after any change to the output of     *)
(* embed_claims outside its "jwt" section, extract_claims returns          *)
(* InvalidModuleHash and nothing else.                                     *)
(***************************************************************************)
C2_TamperAlwaysInvalidHash ==
    (TamperedOutsideJwt /\ Extracted) => ExtractFailed("InvalidModuleHash")

(***************************************************************************)
(* C2  Tamper detection, as the code has it: after one byte of the output  *)
(* of embed_claims was replaced, if the file still parses as a module and  *)
(* its first "jwt" section still holds the embedded token, extract_claims  *)
(* returns InvalidModuleHash.                                              *)
(***************************************************************************)
C2_TamperDetected ==
    (Embedded /\ tamperAt # 0 /\ Extracted) =>
        LET module == deserialize_buffer(contents)
            at == FirstNamed(module.val, JWT)
        IN  (module.ok /\ at # 0 /\ module.val[at].payload = EmbeddedToken)
                => ExtractFailed("InvalidModuleHash")

\* A byte outside the "jwt" section of a verifying module was changed and
\* extraction reported the hash mismatch.
C2_Witness ==
    /\ TamperedOutsideJwt
    /\ Verifies(embedRes.res.val)
    /\ HasJwt(contents)
    /\ JwtPayload(contents) = EmbeddedToken
    /\ ExtractFailed("InvalidModuleHash")

(***************************************************************************)
(* C3  Absence is not an error: for a module that parses and has no custom *)
(* section named "jwt", extract_claims returns Ok(None).                   *)
(***************************************************************************)
C3_AbsenceIsNone ==
    Extracted =>
        LET module == deserialize_buffer(contents) IN
        (module.ok /\ FirstNamed(module.val, JWT) = 0) => ExtractedNone

\* Extraction ran on a module with sections, none of them named "jwt".
C3_Witness ==
    /\ ExtractedNone
    /\ Parses(contents)
    /\ ~HasJwt(contents)
    /\ Len(ModuleOf(contents)) = 2

(***************************************************************************)
(* C4  Invalid payload: for a module that parses and whose first "jwt"     *)
(* section holds bytes that are not valid UTF-8, extract_claims returns    *)
(* EncodingError, whatever else the module holds.                          *)
(***************************************************************************)
C4_InvalidPayload ==
    Extracted =>
        LET module == deserialize_buffer(contents)
            at == FirstNamed(module.val, JWT)
        IN  (module.ok /\ at # 0 /\ ~Utf8(module.val[at].payload))
                => ExtractFailed("EncodingError")

\* Extraction ran on a signed module in which one byte of the token was
\* turned into a byte that is not UTF-8.
C4_Witness ==
    /\ ExtractFailed("EncodingError")
    /\ Embedded
    /\ tamperAt \in JwtSpan
    /\ HasJwt(contents)
    /\ ~Utf8(JwtPayload(contents))

(***************************************************************************)
(* C5  Hash freshness: the module_hash in the embedded token is not empty, *)
(* is the same whatever module_hash the caller's Claims carried, and the   *)
(* caller's Claims object is as it was before the call.                    *)
(***************************************************************************)
C5_HashFreshness ==
    JustEmbedded =>
        LET token == Claims_decode(JwtPayload(embedRes.res.val)) IN
        /\ token.ok
        /\ token.val.module_hash # <<>>
        /\ \A h \in {<<>>, <<65, 66>>} :
              LET other == embed_claims(
                               orig, [given EXCEPT !.module_hash = h], kp)
              IN  /\ other.ok
                  /\ Claims_decode(JwtPayload(other.val)).val.module_hash
                        = token.val.module_hash
        /\ claims = given

\* An embed call was given Claims that already carried a module_hash.
C5_Witness ==
    /\ Embedded
    /\ given.module_hash = <<65, 66>>
    /\ Claims_decode(JwtPayload(contents)).val.module_hash # <<65, 66>>

(***************************************************************************)
(* C9  The canonical hash is invariant under embedding: the output of      *)
(* embed_claims has the canonical hash of its input, whether the "jwt"     *)
(* section was added or replaced, and computing the hash leaves the module *)
(* it is computed from as it was.                                          *)
(***************************************************************************)
C9_CanonicalHashInvariant ==
    JustEmbedded =>
        /\ Parses(embedRes.res.val)
        /\ CanonicalHash(embedRes.res.val) = CanonicalHash(orig)
        /\ compute_hash_without_jwt(ModuleOf(embedRes.res.val)).module
              = ModuleOf(embedRes.res.val)

\* An embed call replaced the "jwt" section of a module that had one
\* among other sections.
C9_Witness ==
    /\ Embedded
    /\ HasJwt(orig)
    /\ Len(ModuleOf(orig)) = 2
    /\ ModuleOf(embedRes.res.val) # ModuleOf(orig)

(***************************************************************************)
(* C10  extract_claims applies its gates in the order parse, section       *)
(* lookup, UTF-8 decoding, token decoding, hash comparison, and reports    *)
(* the first that fails; Ok(Some(token)) needs every gate passed and the   *)
(* computed hash equal to token.claims.module_hash.                        *)
(***************************************************************************)
C10_GateOrder ==
    Extracted =>
        LET module == deserialize_buffer(contents)
            parsed == module.ok
            at == FirstNamed(module.val, JWT)
            present == parsed /\ at # 0
            payload == module.val[at].payload
            text == present /\ Utf8(payload)
            claimsOf == Claims_decode(payload)
            decoded == text /\ claimsOf.ok
            matches == decoded /\
                       claimsOf.val.module_hash
                          = compute_hash_without_jwt(module.val).val
        IN  /\ ~parsed => ExtractFailed("ParseError")
            /\ (parsed /\ ~present) => ExtractedNone
            /\ (present /\ ~text) => ExtractFailed("EncodingError")
            /\ (text /\ ~decoded) => ExtractFailed("TokenDecodeError")
            /\ (decoded /\ ~matches) => ExtractFailed("InvalidModuleHash")
            /\ matches =>
                  /\ ExtractedToken
                  /\ extractRes.res.val.v.jwt = payload
                  /\ extractRes.res.val.v.claims = claimsOf.val

\* Extraction ran on a module whose token no longer decodes and whose
\* content does not have the hash that was signed either.
C10_Witness ==
    /\ ExtractFailed("TokenDecodeError")
    /\ Embedded
    /\ tamperAt \in JwtSpan
    /\ CanonicalHash(contents) # embedRes.res.signed.module_hash

(***************************************************************************)
(* C7  Date conversion: sign_buffer_with_claims signs not_before and       *)
(* expires as None for no day count and as exactly clock + days * 86400    *)
(* for every u64 day count.                                                *)
(***************************************************************************)
ExactDate(days, clock) ==
    AddLimbs(clock, MulSmall(days, SECS_PER_DAY, 0), 0)

DateIs(date, days, clock) ==
    IF days.some
    THEN date.some /\ SameNumber(date.v, ExactDate(days.v, clock))
    ELSE ~date.some

C7_DateConversion ==
    signRes.ran =>
        /\ ~signRes.panic
        /\ DateIs(signRes.res.signed.not_before, signRes.not_before_days,
                  signRes.clock1)
        /\ DateIs(signRes.res.signed.expires, signRes.expires_in_days,
                  signRes.clock2)
====
